---------------------------- MODULE Spec2Model ----------------------------
(***************************************************************************)
(* Model of the bulk file renamer (src/bulk_rename.py).                    *)
(*                                                                         *)
(* A string is a sequence of one-character strings.  The directory is a    *)
(* function from entry names to [kind, content]; a file's content is an    *)
(* identity that a rename moves with the file.  One run of the script is   *)
(* followed from argument parsing (main) through listing, planning,        *)
(* confirmation and the apply loop to the process exit.                    *)
(***************************************************************************)
EXTENDS Integers, Sequences, FiniteSets, TLC

(***************************************************************************)
(* Bounds of the model.                                                    *)
(***************************************************************************)
MaxFiles == 3
MaxArgLen == 1
MaxTemplateLen == 2
MaxPureLen == 3

(***************************************************************************)
(* Characters and strings.                                                 *)
(***************************************************************************)
\* The characters the model uses, in code-point order.
CharOrder == <<"(", ".", "/", "0", "1", "2", "3", "4", "5", "6", "7", "8", "9", "a">>

Code(c) == CHOOSE i \in 1..Len(CharOrder) : CharOrder[i] = c

Digit(d) == CharOrder[d + 4]

\* Python's str comparison: lexicographic by code point, a proper prefix first.
StrLess(s, t) ==
    \E k \in 1..(Len(t)) :
        /\ \A j \in 1..(k - 1) : j <= Len(s) /\ s[j] = t[j]
        /\ \/ k = Len(s) + 1
           \/ k <= Len(s) /\ Code(s[k]) < Code(t[k])

\* All strings over alphabet A of length at most n.
RECURSIVE StringsUpTo(_, _)
StringsUpTo(A, n) ==
    IF n = 0 THEN {<<>>}
    ELSE LET shorter == StringsUpTo(A, n - 1)
         IN  shorter \cup {Append(s, c) : s \in shorter, c \in A}

Slice(s, i, j) == IF i > j THEN <<>> ELSE SubSeq(s, i, j)

\* str.rfind(c): the last position of c (1-based), 0 when absent.
RFind(s, c) ==
    IF \E i \in 1..Len(s) : s[i] = c
    THEN CHOOSE i \in 1..Len(s) : s[i] = c /\ \A j \in (i + 1)..Len(s) : s[j] # c
    ELSE 0

\* os.path.splitext (posixpath): the extension starts at the last dot after
\* the last separator, unless only dots precede it in that component.
SplitAt(p) ==
    LET sepIndex == RFind(p, "/")
        dotIndex == RFind(p, ".")
    IN  IF /\ dotIndex > sepIndex
           /\ \E i \in (sepIndex + 1)..(dotIndex - 1) : p[i] # "."
        THEN dotIndex
        ELSE Len(p) + 1

splitext(p) ==
    [name |-> Slice(p, 1, SplitAt(p) - 1), ext |-> Slice(p, SplitAt(p), Len(p))]

\* str.replace(old, new): every non-overlapping occurrence, left to right;
\* an empty old matches before every character and at the end.
MatchesAt(s, i, old) ==
    /\ i + Len(old) - 1 <= Len(s)
    /\ \A j \in 1..Len(old) : s[i + j - 1] = old[j]

RECURSIVE ReplaceFrom(_, _, _, _)
ReplaceFrom(s, i, old, new) ==
    IF i > Len(s) THEN (IF old = <<>> THEN new ELSE <<>>)
    ELSE IF old = <<>> THEN new \o <<s[i]>> \o ReplaceFrom(s, i + 1, old, new)
    ELSE IF MatchesAt(s, i, old) THEN new \o ReplaceFrom(s, i + Len(old), old, new)
    ELSE <<s[i]>> \o ReplaceFrom(s, i + 1, old, new)

StrReplace(s, old, new) == ReplaceFrom(s, 1, old, new)

\* re.sub for the patterns of the model: a sequence of atoms, "." matching
\* any character and every other character itself.  A pattern holding "("
\* (never closed here) does not compile.
RegexCompiles(pattern) == \A i \in 1..Len(pattern) : pattern[i] # "("

RegexMatchesAt(s, i, pattern) ==
    /\ i + Len(pattern) - 1 <= Len(s)
    /\ \A j \in 1..Len(pattern) : pattern[j] = "." \/ s[i + j - 1] = pattern[j]

RECURSIVE SubFrom(_, _, _, _)
SubFrom(s, i, pattern, repl) ==
    IF i > Len(s) THEN (IF pattern = <<>> THEN repl ELSE <<>>)
    ELSE IF pattern = <<>> THEN repl \o <<s[i]>> \o SubFrom(s, i + 1, pattern, repl)
    ELSE IF RegexMatchesAt(s, i, pattern)
         THEN repl \o SubFrom(s, i + Len(pattern), pattern, repl)
    ELSE <<s[i]>> \o SubFrom(s, i + 1, pattern, repl)

re_sub(pattern, repl, s) == SubFrom(s, 1, pattern, repl)

\* Decimal rendering of a natural number ("{index}"), and zero-padded to
\* PadWidth digits ("{counter:03d}").
PadWidth == 3

RECURSIVE DecStr(_)
DecStr(n) == IF n < 10 THEN <<Digit(n)>> ELSE DecStr(n \div 10) \o <<Digit(n % 10)>>

RECURSIVE ZeroPad(_, _)
ZeroPad(s, w) == IF Len(s) >= w THEN s ELSE ZeroPad(<<"0">> \o s, w)

(***************************************************************************)
(* The five transforms.                                                    *)
(***************************************************************************)
add_prefix(filename, prefix) ==
    prefix \o splitext(filename).name \o splitext(filename).ext

\* Faulty variant: the suffix appended to the whole name, after the extension.
AppendAfterExt(filename, suffix) == filename \o suffix

add_suffix(filename, suffix) ==
    splitext(filename).name \o suffix \o splitext(filename).ext

replace_text(filename, old_text, new_text) ==
    StrReplace(splitext(filename).name, old_text, new_text) \o splitext(filename).ext

regex_replace(filename, pattern, replacement) ==
    re_sub(pattern, replacement, splitext(filename).name) \o splitext(filename).ext

\* A template is a sequence of tokens: a replacement field or a literal
\* character.  "{bad}" stands for a field str.format has no argument for.
Fields == {"{name}", "{ext}", "{index}", "{counter}", "{counter:03d}", "{bad}"}

TemplateOk(template) == \A i \in 1..Len(template) : template[i] # "{bad}"

ExpandToken(tok, filename, index, counter) ==
    CASE tok = "{name}" -> splitext(filename).name
      [] tok = "{ext}" -> splitext(filename).ext
      [] tok = "{index}" -> DecStr(index)
      [] tok = "{counter}" -> DecStr(counter)
      [] tok = "{counter:03d}" -> ZeroPad(DecStr(counter), PadWidth)
      [] OTHER -> <<tok>>

RECURSIVE FormatFrom(_, _, _, _, _)
FormatFrom(template, i, filename, index, counter) ==
    IF i > Len(template) THEN <<>>
    ELSE ExpandToken(template[i], filename, index, counter)
             \o FormatFrom(template, i + 1, filename, index, counter)

format(template, filename, index, counter) ==
    FormatFrom(template, 1, filename, index, counter)

(***************************************************************************)
(* Inputs of a run.                                                        *)
(***************************************************************************)
\* Characters of command-line arguments and of regular expressions.
ArgChars == {"a", "."}

RegexChars == {"a", ".", "("}

TemplateTokens == Fields \cup {"a"}

\* File names a directory may hold, and the name of a possible subdirectory.
NamePool == {<<"1">>, <<"a">>, <<"a", "a">>, <<"a", ".", "a">>, <<".", "a">>}

SubdirPool == {<<"a", "a">>}

\* Lines the operator may type at the confirmation prompt.
RawResponses == {<<"y">>, <<"Y">>, <<" ", "y", " ">>, <<"n">>, <<>>, <<"y", "e", "s">>}

NoStr == <<>>

Mode(kind, a, b, t) == [kind |-> kind, a |-> a, b |-> b, t |-> t]

ArgStrings == StringsUpTo(ArgChars, MaxArgLen)

\* The modes main() can pass on, one per sub-command and argument value.
CliModes ==
    {Mode("prefix", p, NoStr, NoStr) : p \in ArgStrings}
    \cup {Mode("suffix", p, NoStr, NoStr) : p \in ArgStrings}
    \cup {Mode("replace", o, n, NoStr) : o \in ArgStrings, n \in ArgStrings}
    \cup {Mode("regex", r, n, NoStr) : r \in StringsUpTo(RegexChars, MaxArgLen), n \in ArgStrings}
    \cup {Mode("pattern", NoStr, NoStr, t) : t \in StringsUpTo(TemplateTokens, MaxTemplateLen)}

\* A mode string that names no sub-command, and no mode at all.
UnknownMode == Mode("unknown", NoStr, NoStr, NoStr)

MissingMode == Mode("none", NoStr, NoStr, NoStr)

\* A run starts from the command line (main) or from a direct call of
\* bulk_rename, which alone can hand it a mode main() would have rejected.
Invocations ==
    {[entry |-> "main", mode |-> m] : m \in CliModes \cup {UnknownMode, MissingMode}}
    \cup {[entry |-> "call", mode |-> m] : m \in {UnknownMode, MissingMode}}

\* A directory: regular files, each with its own content, and subdirectories.
DirOf(fileNames, dirNames) ==
    [n \in fileNames \cup dirNames |->
        IF n \in fileNames THEN [kind |-> "file", content |-> n]
        ELSE [kind |-> "dir", content |-> n]]

Directories ==
    {DirOf(F, D) : F \in {S \in SUBSET NamePool : Cardinality(S) <= MaxFiles},
                   D \in SUBSET SubdirPool}

EmptyDir == DirOf({}, {})

(***************************************************************************)
(* The file system, as bulk_rename uses it.                                *)
(***************************************************************************)
RegularFiles(d) == {n \in DOMAIN d : d[n].kind = "file"}

\* Faulty variant: the existence check left out.
ExistsNever(d, n) == FALSE

\* os.path.exists(os.path.join(directory, n)): an entry of the directory, or
\* the directory itself ("", ".") or its parent ("..").
Exists(d, n) == n \in DOMAIN d \/ n \in {<<>>, <<".">>, <<".", ".">>}

\* os.rename refuses a missing source and a directory as the target.
RenameRaises(d, old, new) ==
    \/ old \notin DOMAIN d
    \/ new \in {<<>>, <<".">>, <<".", ".">>}
    \/ new \in DOMAIN d /\ d[new].kind = "dir"

\* os.rename: the entry moves to the new name, replacing a file found there.
Rename(d, old, new) ==
    [n \in (DOMAIN d \ {old}) \cup {new} |-> IF n = new THEN d[old] ELSE d[n]]

\* The sequences that list every element of S once: the orders os.listdir
\* may return the names in.
RECURSIVE Orders(_)
Orders(S) ==
    IF S = {} THEN {<<>>}
    ELSE UNION {{<<x>> \o rest : rest \in Orders(S \ {x})} : x \in S}

\* list.sort() on strings.
RECURSIVE Insert(_, _)
Insert(sorted, x) ==
    IF sorted = <<>> THEN <<x>>
    ELSE IF StrLess(x, Head(sorted)) THEN <<x>> \o sorted
    ELSE <<Head(sorted)>> \o Insert(Tail(sorted), x)

RECURSIVE InsertionSort(_)
InsertionSort(s) == IF s = <<>> THEN <<>> ELSE Insert(InsertionSort(Tail(s)), Head(s))

\* Faulty variant: the listing used in the order os.listdir returned it.
Unsorted(s) == s

SortFiles(s) == InsertionSort(s)

\* input().strip().lower()
Lower(c) == IF c = "Y" THEN "y" ELSE c

RECURSIVE Strip(_)
Strip(s) ==
    IF s # <<>> /\ Head(s) = " " THEN Strip(Tail(s))
    ELSE IF s # <<>> /\ s[Len(s)] = " " THEN Strip(SubSeq(s, 1, Len(s) - 1))
    ELSE s

Normalize(raw) == [i \in 1..Len(Strip(raw)) |-> Lower(Strip(raw)[i])]

(***************************************************************************)
(* Planning: the body of the loop over the sorted files.                   *)
(***************************************************************************)
\* The transform raises: re.sub on a pattern that does not compile,
\* str.format on a field it has no argument for.
PlanRaises(m) ==
    \/ m.kind = "regex" /\ ~RegexCompiles(m.a)
    \/ m.kind = "pattern" /\ ~TemplateOk(m.t)

NewName(m, filename, idx, cnt) ==
    CASE m.kind = "prefix" -> add_prefix(filename, m.a)
      [] m.kind = "suffix" -> add_suffix(filename, m.a)
      [] m.kind = "replace" -> replace_text(filename, m.a, m.b)
      [] m.kind = "regex" -> regex_replace(filename, m.a, m.b)
      [] m.kind = "pattern" -> format(m.t, filename, idx, cnt)

\* Faulty variant: the counter never incremented.
CounterStuck(m, cnt) == cnt

NextCounter(m, cnt) == IF m.kind = "pattern" THEN cnt + 1 ELSE cnt

\* Faulty variant: unchanged names kept in the plan.
KeepAll(new_name, filename) == FALSE

IsNoOp(new_name, filename) == new_name = filename

PlanAppend(plan, m, filename, idx, cnt) ==
    IF IsNoOp(NewName(m, filename, idx, cnt), filename) THEN plan
    ELSE Append(plan, [old |-> filename, new |-> NewName(m, filename, idx, cnt)])

\* The whole plan for a sorted file list, when no transform raises.
RECURSIVE PlanFrom(_, _, _, _, _)
PlanFrom(sortedFiles, m, idx, cnt, plan) ==
    IF idx > Len(sortedFiles) THEN plan
    ELSE PlanFrom(sortedFiles, m, idx + 1, NextCounter(m, cnt),
                  PlanAppend(plan, m, sortedFiles[idx], idx, cnt))

(***************************************************************************)
(* Applying: the body of the loop over the plan.                           *)
(***************************************************************************)
\* One entry, given whether the operating system fails the rename.
ApplyEntry(d, e, oserr) ==
    IF Exists(d, e.new) THEN [fs |-> d, outcome |-> "skipped"]
    ELSE IF oserr \/ RenameRaises(d, e.old, e.new) THEN [fs |-> d, outcome |-> "failed"]
    ELSE [fs |-> Rename(d, e.old, e.new), outcome |-> "renamed"]

\* Faulty variant: the first skipped or failed entry ends the loop.
AbortBatch == "report"

\* Where the loop goes after an entry that was skipped or failed: on to the
\* next entry.
OnEntryError == "applying"

(***************************************************************************)
(* The run.                                                                *)
(***************************************************************************)
VARIABLES
    entry,          \* "main" or "call"
    mode,           \* the mode and its arguments
    force,          \* the --force flag
    isdir,          \* os.path.isdir(directory)
    fs,             \* the directory
    fs0,            \* the directory as the run found it
    pc,             \* position of the run
    files,          \* the sorted file list
    index,          \* enumerate position of the planning loop
    counter,        \* the pattern counter
    changes,        \* the plan
    prompted,       \* whether the confirmation prompt was shown
    response,       \* the normalised answer at the prompt
    k,              \* position of the apply loop
    success_count,
    error_count,
    log,            \* outcome of every entry processed so far
    result,         \* how the run ended
    exitCode        \* process exit status, -1 while there is none

vars == <<entry, mode, force, isdir, fs, fs0, pc, files, index, counter, changes,
          prompted, response, k, success_count, error_count, log, result, exitCode>>

inputs == <<entry, mode, force, isdir, fs0>>

planning == <<files, index, counter, changes>>

applying == <<k, success_count, error_count, log>>

InitRun(inv, f, valid, d) ==
    /\ entry = inv.entry
    /\ mode = inv.mode
    /\ force = f
    /\ isdir = valid
    /\ fs = d
    /\ fs0 = d
    /\ pc = IF inv.entry = "main" THEN "main" ELSE "start"
    /\ files = <<>>
    /\ index = 0
    /\ counter = 0
    /\ changes = <<>>
    /\ prompted = FALSE
    /\ response = <<>>
    /\ k = 0
    /\ success_count = 0
    /\ error_count = 0
    /\ log = <<>>
    /\ result = "running"
    /\ exitCode = -1

Init ==
    \E inv \in Invocations, f \in BOOLEAN, valid \in BOOLEAN :
        \E d \in (IF valid THEN Directories ELSE {EmptyDir}) :
            InitRun(inv, f, valid, d)

\* Runs of the prefix and suffix modes over a directory holding one file,
\* of any name that a directory entry can have.
FileNames == StringsUpTo(ArgChars, MaxPureLen) \ {<<>>, <<".">>, <<".", ".">>}

InitExt ==
    \E kind \in {"prefix", "suffix"}, p \in StringsUpTo(ArgChars, MaxPureLen) :
        \E f \in FileNames, frc \in BOOLEAN :
            InitRun([entry |-> "main", mode |-> Mode(kind, p, NoStr, NoStr)],
                    frc, TRUE, DirOf({f}, {}))

\* bulk_rename returns, and with it main and the process.
Return(r) ==
    /\ pc' = "exited"
    /\ result' = r
    /\ exitCode' = IF entry = "main" THEN 0 ELSE -1

\* An exception leaves bulk_rename; the interpreter exits with status 1.
Raise ==
    /\ pc' = "exited"
    /\ result' = "Exception"
    /\ exitCode' = IF entry = "main" THEN 1 ELSE -1

\* main(): argparse rejects an unknown sub-command (status 2), a missing
\* one prints the help and exits with status 1.
Main ==
    /\ pc = "main"
    /\ IF mode.kind = "unknown" THEN pc' = "exited" /\ result' = "Usage" /\ exitCode' = 2
       ELSE IF mode.kind = "none" THEN pc' = "exited" /\ result' = "Usage" /\ exitCode' = 1
       ELSE pc' = "start" /\ UNCHANGED <<result, exitCode>>
    /\ UNCHANGED <<inputs, fs, planning, prompted, response, applying>>

\* bulk_rename up to the planning loop: directory check, listing, sort.
ListFiles ==
    /\ pc = "start"
    /\ IF ~isdir THEN Return("NotADirectory") /\ UNCHANGED planning
       ELSE IF RegularFiles(fs) = {} THEN Return("NoFiles") /\ UNCHANGED planning
       ELSE /\ \E listing \in Orders(RegularFiles(fs)) : files' = SortFiles(listing)
            /\ index' = 1
            /\ counter' = 1
            /\ changes' = <<>>
            /\ pc' = "planning"
            /\ UNCHANGED <<result, exitCode>>
    /\ UNCHANGED <<inputs, fs, prompted, response, applying>>

\* One iteration of the planning loop.
PlanStep ==
    /\ pc = "planning"
    /\ index <= Len(files)
    /\ IF mode.kind \in {"unknown", "none"} THEN Return("UnknownMode") /\ UNCHANGED planning
       ELSE IF PlanRaises(mode) THEN Raise /\ UNCHANGED planning
       ELSE /\ changes' = PlanAppend(changes, mode, files[index], index, counter)
            /\ counter' = NextCounter(mode, counter)
            /\ index' = index + 1
            /\ UNCHANGED <<files, pc, result, exitCode>>
    /\ UNCHANGED <<inputs, fs, prompted, response, applying>>

\* After the loop: nothing to rename, or the preview.
PlanDone ==
    /\ pc = "planning"
    /\ index > Len(files)
    /\ IF changes = <<>> THEN Return("NoChanges")
       ELSE pc' = "confirm" /\ UNCHANGED <<result, exitCode>>
    /\ UNCHANGED <<inputs, fs, planning, prompted, response, applying>>

\* Faulty variant: the answer ignored.
ProceedAlways(f, answer) == TRUE

\* force, or the answer "y".
Proceeds(f, answer) == f \/ answer = <<"y">>

\* The confirmation, skipped under --force.
Confirm ==
    /\ pc = "confirm"
    /\ \E raw \in (IF force THEN {<<>>} ELSE RawResponses) :
        /\ prompted' = ~force
        /\ response' = Normalize(raw)
        /\ IF Proceeds(force, Normalize(raw))
           THEN /\ pc' = "applying"
                /\ k' = 1
                /\ UNCHANGED <<result, exitCode>>
           ELSE Return("Cancelled") /\ UNCHANGED k
    /\ UNCHANGED <<inputs, fs, planning, success_count, error_count, log>>

\* One iteration of the apply loop.
ApplyStep ==
    /\ pc = "applying"
    /\ k <= Len(changes)
    /\ \E oserr \in BOOLEAN :
        LET r == ApplyEntry(fs, changes[k], oserr)
        IN  /\ fs' = r.fs
            /\ log' = Append(log, [old |-> changes[k].old, new |-> changes[k].new,
                                   outcome |-> r.outcome])
            /\ success_count' = IF r.outcome = "renamed" THEN success_count + 1
                                ELSE success_count
            /\ error_count' = IF r.outcome = "renamed" THEN error_count
                              ELSE error_count + 1
            /\ pc' = IF r.outcome = "renamed" THEN "applying" ELSE OnEntryError
    /\ k' = k + 1
    /\ UNCHANGED <<inputs, planning, prompted, response, result, exitCode>>

\* After the loop: the summary line.
Report ==
    /\ pc \in {"applying", "report"}
    /\ pc = "applying" => k > Len(changes)
    /\ Return("Completed")
    /\ UNCHANGED <<inputs, fs, planning, prompted, response, applying>>

Next == Main \/ ListFiles \/ PlanStep \/ PlanDone \/ Confirm \/ ApplyStep \/ Report

Spec == Init /\ [][Next]_vars

SpecExt == InitExt /\ [][Next]_vars
(***************************************************************************)
(* Properties.                                                             *)
(***************************************************************************)
Range(s) == {s[i] : i \in 1..Len(s)}

Last(s) == s[Len(s)]

PlanningOver == pc \in {"confirm", "applying", "report"}
                    \/ result \in {"NoChanges", "Cancelled", "Completed"}

\* C1: when an entry of the directory already has the target name of the
\* plan entry being processed, that step renames nothing: the directory is
\* unchanged (source still under its name, target as it was) and the entry
\* is logged as skipped and counted as a failure.
C1_ExistingTargetIsSkipped ==
    [][(pc = "applying" /\ k <= Len(changes) /\ changes[k].new \in DOMAIN fs)
        => /\ fs' = fs
           /\ changes[k].old \in DOMAIN fs'
           /\ error_count' = error_count + 1
           /\ success_count' = success_count
           /\ log' = Append(log, [old |-> changes[k].old, new |-> changes[k].new,
                                  outcome |-> "skipped"])]_vars

C1_Witness ==
    /\ log # <<>>
    /\ Last(log).outcome = "skipped"
    /\ Last(log).new \in RegularFiles(fs)
    /\ Last(log).old \in RegularFiles(fs)
    /\ fs = fs0

\* C2: a run that has not entered the apply loop, or that ended before it
\* (invalid directory, no files, unknown mode, exception while planning,
\* empty plan, cancelled at the prompt, usage error), has left the directory
\* as it found it and processed no entry; and an entry is only ever
\* processed after --force or a (normalised) answer "y".
C2_NothingBeforeConfirmation ==
    /\ (pc \in {"main", "start", "planning", "confirm"}
          \/ result \in {"Usage", "NotADirectory", "NoFiles", "UnknownMode",
                         "Exception", "NoChanges", "Cancelled"})
        => fs = fs0 /\ log = <<>> /\ success_count = 0 /\ error_count = 0
    /\ (fs # fs0 \/ log # <<>>) => force \/ (prompted /\ response = <<"y">>)

C2_Witness ==
    /\ result = "Cancelled"
    /\ prompted
    /\ response # <<"y">>
    /\ changes # <<>>
    /\ \A i \in 1..Len(changes) : ~Exists(fs, changes[i].new)

\* C3: in the apply loop every plan entry is processed once, in plan order;
\* the counters add up to the entries processed, success_count is the
\* number of renames performed, every performed rename stays in effect, and
\* the run completes only after the last entry.
C3_BatchNeverAborts ==
    /\ (pc = "applying" \/ result = "Completed") =>
        /\ Len(log) = k - 1
        /\ Len(log) <= Len(changes)
        /\ \A i \in 1..Len(log) :
            /\ log[i].old = changes[i].old
            /\ log[i].new = changes[i].new
            /\ log[i].outcome = "renamed" =>
                log[i].new \in DOMAIN fs /\ fs[log[i].new].content = log[i].old
        /\ success_count + error_count = Len(log)
        /\ success_count = Cardinality({i \in 1..Len(log) : log[i].outcome = "renamed"})
        /\ success_count = Cardinality({n \in DOMAIN fs : fs[n].content # n})
    /\ result = "Completed" =>
        /\ Len(log) = Len(changes)
        /\ success_count + error_count = Len(changes)

C3_Witness ==
    /\ result = "Completed"
    /\ \E i, j \in 1..Len(log) :
        /\ i < j
        /\ log[i].outcome = "failed"
        /\ log[j].outcome = "renamed"
    /\ \E i \in 1..Len(log) : log[i].outcome = "skipped"

\* C4: the process exits with status 0 on normal completion (also with no
\* files or nothing to rename) and with a non-zero status when the
\* directory is not a directory or the mode is unknown or missing.
C4_ExitCodes ==
    (pc = "exited" /\ entry = "main") =>
        /\ result \in {"Completed", "NoFiles", "NoChanges", "Cancelled"} => exitCode = 0
        /\ (~isdir \/ mode.kind \in {"unknown", "none"}) => exitCode # 0

\* The extension in the sense of the specification: from the last "." to
\* the end, empty without a ".".
LastDotExt(s) == IF RFind(s, ".") = 0 THEN <<>> ELSE Slice(s, RFind(s, "."), Len(s))

HasDot(s) == RFind(s, ".") # 0

\* C5 as stated: prefix and suffix mode never change the extension.
C5_ExtensionAlwaysKept ==
    mode.kind \in {"prefix", "suffix"} =>
        \A i \in 1..Len(changes) : LastDotExt(changes[i].new) = LastDotExt(changes[i].old)

\* C5, amended: prefix mode keeps the extension when the name holds a "."
\* or the prefix holds none; suffix mode keeps it when the name has a "."
\* after a character that is not a ".", or when neither the name nor the
\* suffix holds a ".".
C5_ExtensionKept ==
    \A i \in 1..Len(changes) :
        LET old == changes[i].old
            keeps ==
                \/ mode.kind = "prefix" /\ (HasDot(old) \/ ~HasDot(mode.a))
                \/ mode.kind = "suffix" /\ splitext(old).ext # <<>>
                \/ mode.kind = "suffix" /\ ~HasDot(old) /\ ~HasDot(mode.a)
        IN  keeps => LastDotExt(changes[i].new) = LastDotExt(old)

C5_Witness ==
    /\ mode.kind = "suffix"
    /\ HasDot(mode.a)
    /\ changes # <<>>
    /\ splitext(changes[1].old).ext # <<>>
    /\ splitext(changes[1].old).name # <<"a">>
    /\ LastDotExt(changes[1].new) = LastDotExt(changes[1].old)

\* C6: no plan entry renames a file to its own name; a run whose every
\* file is such a no-op ends with "no changes needed", without prompt and
\* without touching the directory, and only a non-empty plan gets further.
C6_NoNoOpInPlan ==
    /\ \A i \in 1..Len(changes) : changes[i].new # changes[i].old
    /\ result = "NoChanges" =>
        changes = <<>> /\ ~prompted /\ log = <<>> /\ fs = fs0
    /\ (pc \in {"confirm", "applying"} \/ result \in {"Cancelled", "Completed"}) =>
        changes # <<>>
    /\ PlanningOver => \A i \in 1..Len(files) :
        \/ \E j \in 1..Len(changes) : changes[j].old = files[i]
        \/ NewName(mode, files[i], i, i) = files[i]

C6_Witness ==
    /\ PlanningOver
    /\ changes # <<>>
    /\ Len(changes) < Len(files)

\* C7: the plan is in strictly increasing order of the original names, and
\* it is the same plan for every order in which the directory could have
\* been listed.
C7_PlanSortedAndDeterministic ==
    /\ \A i, j \in 1..Len(changes) : i < j => StrLess(changes[i].old, changes[j].old)
    /\ \A i, j \in 1..Len(files) : i < j => StrLess(files[i], files[j])
    /\ (pc = "confirm" \/ result = "NoChanges") =>
        \A listing \in Orders(RegularFiles(fs0)) :
            changes = PlanFrom(SortFiles(listing), mode, 1, 1, <<>>)

C7_Witness ==
    /\ pc = "confirm"
    /\ Len(changes) >= 2
    /\ \E d \in SubdirPool : d \in DOMAIN fs0

\* C8: in pattern mode the counter equals the enumerate index at every
\* iteration, so the k-th sorted file is expanded with index = counter = k,
\* whether or not earlier files were dropped; in the other modes the
\* counter keeps its initial value.
C8_CounterIsIndex ==
    files # <<>> =>
        /\ mode.kind = "pattern" =>
            /\ counter = index
            /\ \A i \in 1..Len(changes) :
                \E pos \in 1..Len(files) :
                    /\ files[pos] = changes[i].old
                    /\ changes[i].new = format(mode.t, files[pos], pos, pos)
        /\ mode.kind # "pattern" => counter = 1

C8_Witness ==
    /\ mode.kind = "pattern"
    /\ \E i \in 1..Len(mode.t) : mode.t[i] = "{counter}"
    /\ changes # <<>>
    /\ changes[1].old # files[1]

\* The apply loop as a function: the directory and the outcome of every
\* entry after processing plan in the given order, failing the renames of
\* the sources in failing.
RECURSIVE RunPlan(_, _, _, _)
RunPlan(d, plan, failing, done) ==
    IF plan = <<>> THEN [fs |-> d, done |-> done]
    ELSE LET e == Head(plan)
             r == ApplyEntry(d, e, e.old \in failing)
         IN  RunPlan(r.fs, Tail(plan), failing,
                     done \cup {[old |-> e.old, new |-> e.new, outcome |-> r.outcome]})

FailedSources == {log[i].old : i \in {j \in 1..Len(log) : log[j].outcome = "failed"}}

SameInEveryOrder ==
    \A p \in Orders(Range(changes)) :
        RunPlan(fs0, p, FailedSources, {}) = [fs |-> fs, done |-> Range(log)]

\* No target name is the target name or the original name of another entry.
Independent(plan) ==
    \A i, j \in 1..Len(plan) :
        i # j => plan[i].new # plan[j].new /\ plan[i].new # plan[j].old

\* C9 as stated: processing the plan in any order gives the directory and
\* the outcomes that processing it in plan order gave.
C9_OrderNeverMatters == result = "Completed" => SameInEveryOrder

\* C9, amended: it does whenever no entry's target name is the target name
\* or the original name of another entry.
C9_OrderIndependent ==
    (result = "Completed" /\ Independent(changes)) => SameInEveryOrder

C9_Witness ==
    /\ result = "Completed"
    /\ Independent(changes)
    /\ Len(changes) >= 2
    /\ \E i, j \in 1..Len(log) :
        /\ log[i].outcome = "skipped"
        /\ log[j].outcome = "renamed"
    /\ SameInEveryOrder

\* C10: the directory always holds the files it held before the run, each
\* with its own content, and the same subdirectories; every step that
\* changes the directory moves one file to a name that was unused.
FilesPreserved ==
    /\ Cardinality(RegularFiles(fs)) = Cardinality(RegularFiles(fs0))
    /\ {fs[n].content : n \in RegularFiles(fs)} = RegularFiles(fs0)
    /\ \A n \in DOMAIN fs0 : fs0[n].kind = "dir" => n \in DOMAIN fs /\ fs[n] = fs0[n]
    /\ Cardinality(DOMAIN fs) = Cardinality(DOMAIN fs0)

C10_FilesPreserved ==
    /\ []FilesPreserved
    /\ [][fs' # fs =>
            \E old \in RegularFiles(fs) :
                \E new \in DOMAIN fs' \ DOMAIN fs :
                    fs' = [n \in (DOMAIN fs \ {old}) \cup {new} |->
                              IF n = new THEN fs[old] ELSE fs[n]]]_vars

C10_Witness ==
    /\ result = "Completed"
    /\ success_count >= 1
    /\ \E i, j \in 1..Len(changes) :
        i # j /\ changes[i].new = changes[j].new
    /\ \E i, j \in 1..Len(changes) :
        i # j /\ changes[i].new = changes[j].old
==========================================================================
